---- MODULE Spec2Model ----
(***************************************************************************)
(* Model of backend/proxy.py: a WebSocket relay that reads one auth        *)
(* message from each client, dials the upstream service with the bearer    *)
(* token of that message and then forwards JSON messages both ways.        *)
(***************************************************************************)
EXTENDS Integers, Sequences, FiniteSets, TLC

(***************************************************************************)
(* Bounds of the model.                                                    *)
(***************************************************************************)
MaxMsgs == 2
MaxFaults == 1
MaxMultiMsgs == 1

Conns == {"c1", "c2"}
Dirs == {"c2s", "s2c"}

(***************************************************************************)
(* Message text.  A unit of text is a sequence of lexical tokens; `ws` is  *)
(* insignificant whitespace.  A decoded JSON value is a record             *)
(* [k, s, items]: k is the kind, s the scalar payload or member key, items *)
(* the elements of an array or the members (kind "pair") of an object.     *)
(***************************************************************************)
P(c) == [t |-> "punct", s |-> c]
S(c) == [t |-> "str", s |-> c]
N(c) == [t |-> "num", s |-> c]
L(c) == [t |-> "lit", s |-> c]
W == [t |-> "ws", s |-> " "]

Scalar(kind, c) == [k |-> kind, s |-> c, items |-> <<>>]
Arr(elems) == [k |-> "arr", s |-> "", items |-> elems]
Obj(members) == [k |-> "obj", s |-> "", items |-> members]
Pair(key, v) == [k |-> "pair", s |-> key, items |-> <<v>>]
PyNone == Scalar("null", "null")

ParseFail == [ok |-> FALSE, val |-> PyNone, next |-> 0]
ParseOk(v, n) == [ok |-> TRUE, val |-> v, next |-> n]

RECURSIVE SkipWs(_, _)
SkipWs(toks, i) ==
    IF i <= Len(toks) /\ toks[i].t = "ws" THEN SkipWs(toks, i + 1) ELSE i

IsTok(toks, i, tok) == i <= Len(toks) /\ toks[i] = tok

RECURSIVE IndexOfKey(_, _, _)
IndexOfKey(members, key, i) ==
    IF i > Len(members) THEN 0
    ELSE IF members[i].s = key THEN i
    ELSE IndexOfKey(members, key, i + 1)

\* dict assignment d[key] = v: a repeated key keeps its position and takes
\* the last value
DictSet(members, key, v) ==
    LET i == IndexOfKey(members, key, 1)
    IN  IF i = 0 THEN Append(members, Pair(key, v))
        ELSE [members EXCEPT ![i] = Pair(key, v)]

RECURSIVE ParseValue(_, _)
RECURSIVE ParseElems(_, _, _)
RECURSIVE ParseMembers(_, _, _)

ParseValue(toks, i) ==
    LET j == SkipWs(toks, i)
    IN  IF j > Len(toks) THEN ParseFail
        ELSE IF toks[j].t = "num" THEN ParseOk(Scalar("num", toks[j].s), j + 1)
        ELSE IF toks[j].t = "str" THEN ParseOk(Scalar("str", toks[j].s), j + 1)
        ELSE IF toks[j].t = "lit" THEN
            (IF toks[j].s = "null" THEN ParseOk(PyNone, j + 1)
             ELSE ParseOk(Scalar("bool", toks[j].s), j + 1))
        ELSE IF toks[j] = P("[") THEN
            (LET e == SkipWs(toks, j + 1)
             IN  IF IsTok(toks, e, P("]")) THEN ParseOk(Arr(<<>>), e + 1)
                 ELSE ParseElems(toks, j + 1, <<>>))
        ELSE IF toks[j] = P("{") THEN
            (LET e == SkipWs(toks, j + 1)
             IN  IF IsTok(toks, e, P("}")) THEN ParseOk(Obj(<<>>), e + 1)
                 ELSE ParseMembers(toks, j + 1, <<>>))
        ELSE ParseFail

\* the elements after "[" or ",": a value, then "," and more, or "]"
ParseElems(toks, i, acc) ==
    LET r == ParseValue(toks, i)
    IN  IF ~r.ok THEN ParseFail
        ELSE LET e == SkipWs(toks, r.next)
             IN  IF IsTok(toks, e, P(",")) THEN
                     ParseElems(toks, e + 1, Append(acc, r.val))
                 ELSE IF IsTok(toks, e, P("]")) THEN
                     ParseOk(Arr(Append(acc, r.val)), e + 1)
                 ELSE ParseFail

\* the members after "{" or ",": "key" : value, then "," and more, or "}"
ParseMembers(toks, i, acc) ==
    LET j == SkipWs(toks, i)
    IN  IF ~(j <= Len(toks) /\ toks[j].t = "str") THEN ParseFail
        ELSE LET c == SkipWs(toks, j + 1)
             IN  IF ~IsTok(toks, c, P(":")) THEN ParseFail
                 ELSE LET r == ParseValue(toks, c + 1)
                      IN  IF ~r.ok THEN ParseFail
                          ELSE LET e == SkipWs(toks, r.next)
                                   d == DictSet(acc, toks[j].s, r.val)
                               IN  IF IsTok(toks, e, P(",")) THEN
                                       ParseMembers(toks, e + 1, d)
                                   ELSE IF IsTok(toks, e, P("}")) THEN
                                       ParseOk(Obj(d), e + 1)
                                   ELSE ParseFail

\* json.loads(message): the whole text must be one value; ok = FALSE stands
\* for json.JSONDecodeError
json_loads(text) ==
    LET r == ParseValue(text, 1)
    IN  IF r.ok /\ SkipWs(text, r.next) > Len(text)
        THEN [ok |-> TRUE, val |-> r.val]
        ELSE [ok |-> FALSE, val |-> PyNone]

RECURSIVE json_dumps(_)
RECURSIVE DumpItems(_, _)

\* the items of an array or object, joined by the item separator ", "
DumpItems(items, i) ==
    IF i > Len(items) THEN <<>>
    ELSE (IF i > 1 THEN <<P(","), W>> ELSE <<>>)
         \o (IF items[i].k = "pair"
             THEN <<S(items[i].s), P(":"), W>> \o json_dumps(items[i].items[1])
             ELSE json_dumps(items[i]))
         \o DumpItems(items, i + 1)

\* json.dumps(data) with the default separators (", ", ": ")
json_dumps(v) ==
    IF v.k = "num" THEN <<N(v.s)>>
    ELSE IF v.k = "str" THEN <<S(v.s)>>
    ELSE IF v.k \in {"null", "bool"} THEN <<L(v.s)>>
    ELSE IF v.k = "arr" THEN <<P("[")>> \o DumpItems(v.items, 1) \o <<P("]")>>
    ELSE <<P("{")>> \o DumpItems(v.items, 1) \o <<P("}")>>

(***************************************************************************)
(* The Python operations handle_client and create_proxy apply to the       *)
(* decoded auth message.                                                   *)
(***************************************************************************)
\* the strings of the model that contain another as a proper substring
ProperSubstrings == {<<"bearer_token", "my bearer_token">>}

IsSubstring(a, b) == a = b \/ <<a, b>> \in ProperSubstrings

\* `key in v`: membership for dict (keys), list (elements) and str
\* (substring); TypeError for int, bool and None
py_in(key, v) ==
    IF v.k = "obj" THEN
        (IF IndexOfKey(v.items, key, 1) # 0 THEN "True" ELSE "False")
    ELSE IF v.k = "arr" THEN
        (IF \E i \in 1..Len(v.items) : v.items[i] = Scalar("str", key)
         THEN "True" ELSE "False")
    ELSE IF v.k = "str" THEN
        (IF IsSubstring(key, v.s) THEN "True" ELSE "False")
    ELSE "TypeError"

\* `v[key]`: the member of a dict; KeyError or TypeError otherwise
py_getitem(v, key) ==
    IF v.k = "obj" /\ IndexOfKey(v.items, key, 1) # 0
    THEN [ok |-> TRUE, val |-> v.items[IndexOfKey(v.items, key, 1)].items[1]]
    ELSE [ok |-> FALSE, val |-> PyNone]

RECURSIVE py_repr(_)
RECURSIVE ReprItems(_, _)

ReprItems(items, i) ==
    IF i > Len(items) THEN ""
    ELSE (IF i > 1 THEN ", " ELSE "")
         \o (IF items[i].k = "pair"
             THEN "'" \o items[i].s \o "': " \o py_repr(items[i].items[1])
             ELSE py_repr(items[i]))
         \o ReprItems(items, i + 1)

py_repr(v) ==
    IF v.k = "str" THEN "'" \o v.s \o "'"
    ELSE IF v.k = "num" THEN v.s
    ELSE IF v.k = "null" THEN "None"
    ELSE IF v.k = "bool" THEN (IF v.s = "true" THEN "True" ELSE "False")
    ELSE IF v.k = "arr" THEN "[" \o ReprItems(v.items, 1) \o "]"
    ELSE "{" \o ReprItems(v.items, 1) \o "}"

\* str(v), as the f-string formats it
py_str(v) == IF v.k = "str" THEN v.s ELSE py_repr(v)

\* a header formatted with {bearer_token!r}
AuthorizationRepr(bearer_token) == "Bearer " \o py_repr(bearer_token)

\* headers["Authorization"] of create_proxy
Authorization(bearer_token) == "Bearer " \o py_str(bearer_token)

(***************************************************************************)
(* The texts the peers send.                                               *)
(***************************************************************************)
AuthTexts ==
    { <<P("{"), S("bearer_token"), P(":"), W, S("abc"), P("}")>>,
      <<P("{"), S("bearer_token"), P(":"), S("xyz"), P("}")>>,
      <<P("{"), S("bearer_token"), P(":"), N("123"), P("}")>>,
      <<P("{"), S("bearer_token"), P(":"), S("abc"), P(","),
        S("bearer_token"), P(":"), S("xyz"), P("}")>>,
      <<P("{"), S("x"), P(":"), N("1"), P("}")>>,
      <<N("5")>>,
      <<L("null")>>,
      <<S("hello")>>,
      <<S("my bearer_token")>>,
      <<P("["), S("bearer_token"), P("]")>>,
      <<P("["), P("]")>>,
      <<P("{"), S("bearer_token")>> }

\* the first messages of the runs with several connections
MultiAuthTexts ==
    { <<P("{"), S("bearer_token"), P(":"), W, S("abc"), P("}")>>,
      <<P("{"), S("bearer_token"), P(":"), N("123"), P("}")>>,
      <<P("["), P("]")>> }

PayloadTexts ==
    { <<P("{"), S("x"), P(":"), N("1"), P("}")>>,
      <<W, P("{"), S("y"), P(":"), P("["), N("1"), P(","), L("true"), P("]"),
        P("}")>>,
      <<P("{"), S("x")>> }

\* the payloads of the runs with several connections: the peers of each
\* connection have a text of their own
MultiPayloadTexts(c) ==
    IF c = "c1"
    THEN { <<P("{"), S("x"), P(":"), N("1"), P("}")>> }
    ELSE { <<W, P("{"), S("y"), P(":"), P("["), N("1"), P(","), L("true"),
             P("]"), P("}")>> }

\* json.loads of every text a peer can send, computed once
LoadsOf == [text \in AuthTexts \cup PayloadTexts |-> json_loads(text)]

\* a gatekeeper that takes every failure of the token lookup for an error
AuthBranchMissingIsError(auth_message) ==
    LET r == LoadsOf[auth_message]
        g == py_getitem(r.val, "bearer_token")
    IN  IF r.ok /\ g.ok THEN [to |-> "connect", token |-> g.val]
        ELSE [to |-> "close1011", token |-> PyNone]

\* a gatekeeper that looks the token up with a default and does not test it
AuthBranchNoCheck(auth_message) ==
    LET r == LoadsOf[auth_message]
        g == py_getitem(r.val, "bearer_token")
    IN  IF ~r.ok THEN [to |-> "close1011", token |-> PyNone]
        ELSE [to |-> "connect", token |-> g.val]

\* The synchronous part of handle_client after the first message arrived:
\* which await it reaches next, and with which token.
AuthBranch(auth_message) ==
    LET r == LoadsOf[auth_message]
        m == py_in("bearer_token", r.val)
        g == py_getitem(r.val, "bearer_token")
    IN  IF ~r.ok THEN [to |-> "close1011", token |-> PyNone]
        ELSE IF m = "TypeError" THEN [to |-> "close1011", token |-> PyNone]
        ELSE IF m = "False" THEN [to |-> "close1008", token |-> PyNone]
        ELSE IF ~g.ok THEN [to |-> "close1011", token |-> PyNone]
        ELSE [to |-> "connect", token |-> g.val]

(***************************************************************************)
(* State.  Every variable is indexed by the connection; the two streams of *)
(* a connection are "client" (client_websocket) and "server"               *)
(* (server_websocket), the two relays "c2s" and "s2c".                     *)
(***************************************************************************)
VARIABLES
    pc,           \* where handle_client / create_proxy of the connection is
    ws,           \* state of each stream
    sent,         \* texts the peer of each stream has sent to the proxy
    nread,        \* how many of them the proxy has read
    rcvd,         \* texts the proxy has written to each stream
    authEvt,      \* how the wait for the first message ended
    bearer_token, \* the token handed to create_proxy
    upHeader,     \* Authorization header of the connect call
    rpc,          \* where each proxy_task is
    data,         \* the decoded message a proxy_task is about to send
    sendErr,      \* number of sends of a proxy_task that raised an error
    closeCalls,   \* the client_websocket.close calls of handle_client
    faults        \* number of injected failures (send error, close error)

vars == <<pc, ws, sent, nread, rcvd, authEvt, bearer_token, upHeader, rpc,
          data, sendErr, closeCalls, faults>>

Ends == {"client", "server"}

\* both tasks created on the client stream
SourceSame(d) == "client"

\* the stream a task reads: proxy_task(client_websocket, server_websocket)
\* and proxy_task(server_websocket, client_websocket)
Source(d) == IF d = "c2s" THEN "client" ELSE "server"
Target(d) == IF d = "c2s" THEN "server" ELSE "client"

IsClosed(state) == state \in {"closed_ok", "closed_err", "closed_local"}

Unread(c, e) == nread[c][e] < Len(sent[c][e])
NextUnit(c, e) == sent[c][e][nread[c][e] + 1]

RECURSIVE SumOver(_, _)
SumOver(f, D) ==
    IF D = {} THEN 0
    ELSE LET x == CHOOSE y \in D : TRUE IN f[x] + SumOver(f, D \ {x})

\* the messages sent so far, the first message of each client apart
Payloads ==
    SumOver([c \in Conns |->
                Len(sent[c]["server"])
                + (IF Len(sent[c]["client"]) > 0
                   THEN Len(sent[c]["client"]) - 1 ELSE 0)], Conns)

Init ==
    /\ pc = [c \in Conns |-> "idle"]
    /\ ws = [c \in Conns |-> [e \in Ends |-> "none"]]
    /\ sent = [c \in Conns |-> [e \in Ends |-> <<>>]]
    /\ nread = [c \in Conns |-> [e \in Ends |-> 0]]
    /\ rcvd = [c \in Conns |-> [e \in Ends |-> <<>>]]
    /\ authEvt = [c \in Conns |-> "none"]
    /\ bearer_token = [c \in Conns |-> PyNone]
    /\ upHeader = [c \in Conns |-> ""]
    /\ rpc = [c \in Conns |-> [d \in Dirs |-> "none"]]
    /\ data = [c \in Conns |-> [d \in Dirs |-> PyNone]]
    /\ sendErr = [c \in Conns |-> [d \in Dirs |-> 0]]
    /\ closeCalls = [c \in Conns |-> <<>>]
    /\ faults = 0

(***************************************************************************)
(* The peers: the client and the upstream service.                         *)
(***************************************************************************)
\* a listener that serves one connection at a time
AcceptSerial(c) ==
    /\ pc[c] = "idle"
    /\ \A other \in Conns \ {c} : pc[other] \in {"idle", "done", "raised"}
    /\ pc' = [pc EXCEPT ![c] = "recv"]
    /\ ws' = [ws EXCEPT ![c]["client"] = "open"]
    /\ UNCHANGED <<sent, nread, rcvd, authEvt, bearer_token, upHeader, rpc,
                   data, sendErr, closeCalls, faults>>

\* websockets.serve accepts the connection and starts handle_client
Accept(c) ==
    /\ pc[c] = "idle"
    /\ pc' = [pc EXCEPT ![c] = "recv"]
    /\ ws' = [ws EXCEPT ![c]["client"] = "open"]
    /\ UNCHANGED <<sent, nread, rcvd, authEvt, bearer_token, upHeader, rpc,
                   data, sendErr, closeCalls, faults>>

PeerSend(c, e, text, budget) ==
    /\ ws[c][e] = "open"
    /\ IF e = "client" /\ sent[c][e] = <<>>
       THEN text \in AuthTexts
       ELSE text \in PayloadTexts /\ Payloads < budget
    /\ sent' = [sent EXCEPT ![c][e] = Append(@, text)]
    /\ UNCHANGED <<pc, ws, nread, rcvd, authEvt, bearer_token, upHeader, rpc,
                   data, sendErr, closeCalls, faults>>

\* the peer closes its stream: "closed_ok" with a normal close code,
\* "closed_err" otherwise
PeerClose(c, e, how) ==
    /\ ws[c][e] = "open"
    /\ how \in {"closed_ok", "closed_err"}
    /\ ws' = [ws EXCEPT ![c][e] = how]
    /\ UNCHANGED <<pc, sent, nread, rcvd, authEvt, bearer_token, upHeader,
                   rpc, data, sendErr, closeCalls, faults>>

(***************************************************************************)
(* handle_client                                                           *)
(***************************************************************************)
\* a handle_client that looks at the first message and leaves it in the
\* stream
AuthRecvPeek(c) ==
    /\ pc[c] = "recv"
    /\ Unread(c, "client")
    /\ LET b == AuthBranch(NextUnit(c, "client"))
       IN  /\ pc' = [pc EXCEPT ![c] = b.to]
           /\ IF b.to = "connect"
              THEN /\ bearer_token' = [bearer_token EXCEPT ![c] = b.token]
                   /\ upHeader' = [upHeader EXCEPT ![c] = Authorization(b.token)]
                   /\ ws' = [ws EXCEPT ![c]["server"] = "connecting"]
              ELSE UNCHANGED <<bearer_token, upHeader, ws>>
    /\ authEvt' = [authEvt EXCEPT ![c] = "msg"]
    /\ UNCHANGED <<sent, nread, rcvd, rpc, data, sendErr, closeCalls, faults>>

\* recv() returned the first message; json.loads, the `in` test and the
\* subscript run without suspension, then create_proxy builds its headers
\* and calls websockets.connect, or handle_client calls close
AuthRecv(c) ==
    /\ pc[c] = "recv"
    /\ Unread(c, "client")
    /\ LET b == AuthBranch(NextUnit(c, "client"))
       IN  /\ pc' = [pc EXCEPT ![c] = b.to]
           /\ IF b.to = "connect"
              THEN /\ bearer_token' = [bearer_token EXCEPT ![c] = b.token]
                   /\ upHeader' = [upHeader EXCEPT ![c] = Authorization(b.token)]
                   /\ ws' = [ws EXCEPT ![c]["server"] = "connecting"]
              ELSE UNCHANGED <<bearer_token, upHeader, ws>>
    /\ nread' = [nread EXCEPT ![c]["client"] = @ + 1]
    /\ authEvt' = [authEvt EXCEPT ![c] = "msg"]
    /\ UNCHANGED <<sent, rcvd, rpc, data, sendErr, closeCalls, faults>>

\* asyncio.wait_for gave up after 5 seconds: asyncio.TimeoutError
AuthTimeout(c) ==
    /\ pc[c] = "recv"
    /\ ~Unread(c, "client")
    /\ ws[c]["client"] = "open"
    /\ pc' = [pc EXCEPT ![c] = "close1011"]
    /\ authEvt' = [authEvt EXCEPT ![c] = "timeout"]
    /\ UNCHANGED <<ws, sent, nread, rcvd, bearer_token, upHeader, rpc, data,
                   sendErr, closeCalls, faults>>

\* the client went away before its first message: recv() raises
\* ConnectionClosed
AuthClosed(c) ==
    /\ pc[c] = "recv"
    /\ ~Unread(c, "client")
    /\ IsClosed(ws[c]["client"])
    /\ pc' = [pc EXCEPT ![c] = "close1011"]
    /\ authEvt' = [authEvt EXCEPT ![c] = "closed"]
    /\ UNCHANGED <<ws, sent, nread, rcvd, bearer_token, upHeader, rpc, data,
                   sendErr, closeCalls, faults>>

\* a close call that passes the code alone
CloseCallNoReason(code, reason) == [code |-> code, reason |-> ""]

CloseCall(code, reason) == [code |-> code, reason |-> reason]

\* where handle_client goes when the close call of line 85 raises: the call
\* is inside the try block
After1008Raise == "close1011"

\* where handle_client goes when the close call of line 88 raises: the call
\* is in the except block, nothing catches its exception
After1011Raise == "raised"

\* a close that leaves the stream as it is
LocalCloseNoop(state) == state

\* the proxy closes a stream
LocalClose(state) == IF state = "open" THEN "closed_local" ELSE state

\* await client_websocket.close(code=1008, reason="Bearer token missing")
Close1008(c, outcome) ==
    /\ pc[c] = "close1008"
    /\ closeCalls' = [closeCalls EXCEPT
                        ![c] = Append(@, CloseCall(1008, "Bearer token missing"))]
    /\ ws' = [ws EXCEPT ![c]["client"] = LocalClose(@)]
    /\ \/ /\ outcome = "ok"
          /\ pc' = [pc EXCEPT ![c] = "done"]
          /\ UNCHANGED faults
       \/ /\ outcome = "raise"
          /\ faults < MaxFaults
          /\ faults' = faults + 1
          /\ pc' = [pc EXCEPT ![c] = After1008Raise]
    /\ UNCHANGED <<sent, nread, rcvd, authEvt, bearer_token, upHeader, rpc,
                   data, sendErr>>

\* await client_websocket.close(code=1011, reason="Internal error")
Close1011(c, outcome) ==
    /\ pc[c] = "close1011"
    /\ closeCalls' = [closeCalls EXCEPT
                        ![c] = Append(@, CloseCall(1011, "Internal error"))]
    /\ ws' = [ws EXCEPT ![c]["client"] = LocalClose(@)]
    /\ \/ /\ outcome = "ok"
          /\ pc' = [pc EXCEPT ![c] = "done"]
          /\ UNCHANGED faults
       \/ /\ outcome = "raise"
          /\ faults < MaxFaults
          /\ faults' = faults + 1
          /\ pc' = [pc EXCEPT ![c] = After1011Raise]
    /\ UNCHANGED <<sent, nread, rcvd, authEvt, bearer_token, upHeader, rpc,
                   data, sendErr>>

(***************************************************************************)
(* create_proxy                                                            *)
(***************************************************************************)
\* websockets.connect succeeded: both tasks are created, then gather awaits
ConnectOk(c) ==
    /\ pc[c] = "connect"
    /\ ws' = [ws EXCEPT ![c]["server"] = "open"]
    /\ rpc' = [rpc EXCEPT ![c] = [d \in Dirs |-> "read"]]
    /\ pc' = [pc EXCEPT ![c] = "gather"]
    /\ UNCHANGED <<sent, nread, rcvd, authEvt, bearer_token, upHeader, data,
                   sendErr, closeCalls, faults>>

\* a connect failure that reaches the except block of handle_client
ConnectFailEscapes(c) ==
    /\ pc[c] = "connect"
    /\ ws' = [ws EXCEPT ![c]["server"] = "failed"]
    /\ pc' = [pc EXCEPT ![c] = "close1011"]
    /\ UNCHANGED <<sent, nread, rcvd, authEvt, bearer_token, upHeader, rpc,
                   data, sendErr, closeCalls, faults>>

\* a connect failure after which create_proxy dials again
ConnectFailRetry(c) ==
    /\ pc[c] = "connect"
    /\ ws' = [ws EXCEPT ![c]["server"] = "failed"]
    /\ pc' = [pc EXCEPT ![c] = "connect"]
    /\ UNCHANGED <<sent, nread, rcvd, authEvt, bearer_token, upHeader, rpc,
                   data, sendErr, closeCalls, faults>>

\* websockets.connect raised: the outer except logs it, create_proxy and
\* handle_client return
ConnectFail(c) ==
    /\ pc[c] = "connect"
    /\ ws' = [ws EXCEPT ![c]["server"] = "failed"]
    /\ pc' = [pc EXCEPT ![c] = "done"]
    /\ UNCHANGED <<sent, nread, rcvd, authEvt, bearer_token, upHeader, rpc,
                   data, sendErr, closeCalls, faults>>

\* a task is over: it returned from its loop ("done") or from the outer
\* `except Exception` ("error")
Finished(state) == state \in {"done", "error"}

\* a wait that ends with the first task that is over
GatherReadyAny(r) == \E d \in Dirs : Finished(r[d])

\* asyncio.gather returns once both tasks are over
GatherReady(r) == \A d \in Dirs : Finished(r[d])

\* a gather that hands the error of a task to handle_client
GatherReturnRaises(c) ==
    /\ pc[c] = "gather"
    /\ GatherReady(rpc[c])
    /\ pc' = [pc EXCEPT ![c] = IF \E d \in Dirs : rpc[c][d] = "error"
                               THEN "close1011" ELSE "exit"]
    /\ UNCHANGED <<ws, sent, nread, rcvd, authEvt, bearer_token, upHeader,
                   rpc, data, sendErr, closeCalls, faults>>

\* the await of gather ends; no task hands it an exception
GatherReturn(c) ==
    /\ pc[c] = "gather"
    /\ GatherReady(rpc[c])
    /\ pc' = [pc EXCEPT ![c] = "exit"]
    /\ UNCHANGED <<ws, sent, nread, rcvd, authEvt, bearer_token, upHeader,
                   rpc, data, sendErr, closeCalls, faults>>

\* leaving `async with websockets.connect(...)` closes server_websocket;
\* create_proxy and handle_client return
ExitCtx(c) ==
    /\ pc[c] = "exit"
    /\ ws' = [ws EXCEPT ![c]["server"] = LocalClose(@)]
    /\ pc' = [pc EXCEPT ![c] = "done"]
    /\ UNCHANGED <<sent, nread, rcvd, authEvt, bearer_token, upHeader, rpc,
                   data, sendErr, closeCalls, faults>>

(***************************************************************************)
(* proxy_task                                                              *)
(***************************************************************************)
\* a relay that gives up at the first message it cannot decode
AfterLoadsAbort(ok) == IF ok THEN "send" ELSE "done"

\* the state of the task after json.loads of a message it read
AfterLoads(ok) == IF ok THEN "send" ELSE "read"

\* `async for` yields the next message; json.loads decodes it, and a decode
\* error is printed by the inner `except Exception`
RelayRead(c, d) ==
    /\ rpc[c][d] = "read"
    /\ Unread(c, Source(d))
    /\ LET r == LoadsOf[NextUnit(c, Source(d))]
       IN  /\ rpc' = [rpc EXCEPT ![c][d] = AfterLoads(r.ok)]
           /\ data' = [data EXCEPT ![c][d] = r.val]
    /\ nread' = [nread EXCEPT ![c][Source(d)] = @ + 1]
    /\ UNCHANGED <<pc, ws, sent, rcvd, authEvt, bearer_token, upHeader,
                   sendErr, closeCalls, faults>>

\* a relay that ends when the source of any connection is closed
RelayEndAny(c, d) ==
    /\ rpc[c][d] = "read"
    /\ ~Unread(c, Source(d))
    /\ \E other \in Conns : IsClosed(ws[other][Source(d)])
    /\ rpc' = [rpc EXCEPT ![c][d] = "done"]
    /\ UNCHANGED <<pc, ws, sent, nread, rcvd, authEvt, bearer_token, upHeader,
                   data, sendErr, closeCalls, faults>>

\* the source is closed and has nothing left: the iteration stops (normal
\* closure) or raises ConnectionClosed (caught by the outer except)
RelayEnd(c, d) ==
    /\ rpc[c][d] = "read"
    /\ ~Unread(c, Source(d))
    /\ IsClosed(ws[c][Source(d)])
    /\ rpc' = [rpc EXCEPT ![c][d] = "done"]
    /\ UNCHANGED <<pc, ws, sent, nread, rcvd, authEvt, bearer_token, upHeader,
                   data, sendErr, closeCalls, faults>>

\* the iteration raises an exception other than ConnectionClosed: the outer
\* `except Exception` prints it and the task returns
RelayFail(c, d) ==
    /\ rpc[c][d] = "read"
    /\ faults < MaxFaults
    /\ faults' = faults + 1
    /\ rpc' = [rpc EXCEPT ![c][d] = "error"]
    /\ UNCHANGED <<pc, ws, sent, nread, rcvd, authEvt, bearer_token, upHeader,
                   data, sendErr, closeCalls>>

\* the text target_websocket.send is given
Outgoing(v) == json_dumps(v)

\* a transport that lets a message overtake the earlier ones
DeliverFirst(q, text) == <<text>> \o q

\* what a stream has received after one more send
Deliver(q, text) == Append(q, text)

\* a relay that stops at a send that raised
AfterSendErrorStop == "done"

\* the state of the task after a send that raised an exception other than
\* ConnectionClosed: the inner `except Exception` prints, the loop goes on
AfterSendError == "read"

\* a relay that goes on after a send to a closed stream
AfterSendClosedContinue == "read"

\* the state of the task after a send that raised ConnectionClosed: `break`
\* leaves the loop and the task returns
AfterSendClosed == "done"

\* await target_websocket.send(json.dumps(data))
RelaySend(c, d, outcome) ==
    /\ rpc[c][d] = "send"
    /\ \/ /\ outcome = "ok"
          /\ ws[c][Target(d)] = "open"
          /\ rcvd' = [rcvd EXCEPT
                        ![c][Target(d)] = Deliver(@, Outgoing(data[c][d]))]
          /\ rpc' = [rpc EXCEPT ![c][d] = "read"]
          /\ UNCHANGED <<sendErr, faults>>
       \/ /\ outcome = "closed"
          /\ ws[c][Target(d)] # "open"
          /\ rpc' = [rpc EXCEPT ![c][d] = AfterSendClosed]
          /\ UNCHANGED <<rcvd, sendErr, faults>>
       \/ /\ outcome = "error"
          /\ ws[c][Target(d)] = "open"
          /\ faults < MaxFaults
          /\ faults' = faults + 1
          /\ sendErr' = [sendErr EXCEPT ![c][d] = @ + 1]
          /\ rpc' = [rpc EXCEPT ![c][d] = AfterSendError]
          /\ UNCHANGED rcvd
    /\ data' = [data EXCEPT ![c][d] = PyNone]
    /\ UNCHANGED <<pc, ws, sent, nread, authEvt, bearer_token, upHeader,
                   closeCalls>>

(***************************************************************************)
(* Specifications                                                          *)
(***************************************************************************)
ProxyStep(c) ==
    \/ AuthRecv(c)
    \/ AuthTimeout(c)
    \/ AuthClosed(c)
    \/ \E o \in {"ok", "raise"} : Close1008(c, o)
    \/ \E o \in {"ok", "raise"} : Close1011(c, o)
    \/ ConnectOk(c)
    \/ ConnectFail(c)
    \/ GatherReturn(c)
    \/ ExitCtx(c)
    \/ \E d \in Dirs : RelayRead(c, d)
    \/ \E d \in Dirs : RelayEnd(c, d)
    \/ \E d \in Dirs : RelayFail(c, d)
    \/ \E d \in Dirs, o \in {"ok", "closed", "error"} : RelaySend(c, d, o)

PeerStep(c, texts, hows, budget) ==
    \/ Accept(c)
    \/ \E e \in Ends, text \in texts : PeerSend(c, e, text, budget)
    \/ \E e \in Ends, how \in hows : PeerClose(c, e, how)

\* one connection, every shape of first message
Next ==
    \/ ProxyStep("c1")
    \/ PeerStep("c1", AuthTexts \cup PayloadTexts, {"closed_ok", "closed_err"},
                MaxMsgs)

Spec == Init /\ [][Next]_vars

\* the event loop runs every task that can run; the peers owe nothing
ProxyFair(c) ==
    /\ WF_vars(AuthRecv(c))
    /\ WF_vars(AuthTimeout(c))
    /\ WF_vars(AuthClosed(c))
    /\ WF_vars(\E o \in {"ok", "raise"} : Close1008(c, o))
    /\ WF_vars(\E o \in {"ok", "raise"} : Close1011(c, o))
    /\ WF_vars(ConnectOk(c) \/ ConnectFail(c))
    /\ WF_vars(GatherReturn(c))
    /\ WF_vars(ExitCtx(c))
    /\ \A d \in Dirs :
        /\ WF_vars(RelayRead(c, d))
        /\ WF_vars(RelayEnd(c, d))
        /\ WF_vars(\E o \in {"ok", "closed", "error"} : RelaySend(c, d, o))

FairSpec == Spec /\ ProxyFair("c1")

\* several connections at once
NextMulti ==
    \E c \in Conns :
        \/ ProxyStep(c)
        \/ PeerStep(c, MultiAuthTexts \cup MultiPayloadTexts(c), {"closed_err"},
                    MaxMultiMsgs)

SpecMulti == Init /\ [][NextMulti]_vars

TypeOK ==
    /\ \A c \in Conns :
        /\ pc[c] \in {"idle", "recv", "close1008", "close1011", "connect",
                      "gather", "exit", "done", "raised"}
        /\ \A d \in Dirs : rpc[c][d] \in {"none", "read", "send", "done", "error"}
        /\ \A e \in Ends : nread[c][e] <= Len(sent[c][e])
    /\ faults <= MaxFaults

(***************************************************************************)
(* Claims                                                                  *)
(***************************************************************************)
IsValidJson(text) == json_loads(text).ok

\* the first message of a client, once it has sent one
First(c) == sent[c]["client"][1]

\* the units a relay is to forward: everything its source sent, except the
\* first message of the client, which handle_client consumes
Units(c, d) ==
    IF d = "c2s" THEN Tail(sent[c]["client"]) ELSE sent[c]["server"]

\* how many of its units a running relay has read and finished handling
Handled(c, d) ==
    nread[c][Source(d)] - (IF d = "c2s" THEN 1 ELSE 0)
        - (IF rpc[c][d] = "send" THEN 1 ELSE 0)

\* both sequences of texts decode to the same sequence of JSON values
SameDecoded(got, want) ==
    /\ Len(got) = Len(want)
    /\ \A i \in 1..Len(got) :
        /\ json_loads(got[i]).ok
        /\ json_loads(got[i]).val = json_loads(want[i]).val

Running(c, d) == rpc[c][d] \in {"read", "send"}

\* the relay runs and its destination has stayed open and writable
Forwarding(c, d) ==
    /\ Running(c, d)
    /\ ws[c][Target(d)] = "open"
    /\ sendErr[c][d] = 0

Released(c) ==
    /\ pc[c] = "done"
    /\ \A d \in Dirs : rpc[c][d] = "done"
    /\ IsClosed(ws[c]["server"])

\* C1: in an established session, once the client stream or the upstream
\* stream is closed, eventually both relay tasks have terminated and
\* create_proxy has left its `async with` (the upstream connection is
\* closed), whatever the stream that stayed open does.
C1_CloseReleasesSession ==
    (pc["c1"] = "gather"
        /\ (IsClosed(ws["c1"]["client"]) \/ IsClosed(ws["c1"]["server"])))
    ~> Released("c1")

\* C2: in a forwarding direction whose source has sent only valid JSON and
\* whose destination has stayed open and writable, the destination has
\* received exactly the units the relay has handled so far, each decoding to
\* the same value as the unit sent, in the order sent.
C2_ValidForwardedInOrder ==
    \A c \in {"c1"}, d \in Dirs :
        (Forwarding(c, d) /\ \A i \in 1..Len(Units(c, d)) : IsValidJson(Units(c, d)[i]))
        => SameDecoded(rcvd[c][Target(d)], SubSeq(Units(c, d), 1, Handled(c, d)))

\* two different valid units went client -> upstream, both arrived, re-encoded
C2_Witness ==
    /\ Forwarding("c1", "c2s")
    /\ Len(Units("c1", "c2s")) = 2
    /\ Units("c1", "c2s")[1] # Units("c1", "c2s")[2]
    /\ \A i \in 1..2 : IsValidJson(Units("c1", "c2s")[i])
    /\ Len(rcvd["c1"]["server"]) = 2
    /\ rcvd["c1"]["server"][1] # Units("c1", "c2s")[1]

\* C9: a unit that fails JSON parsing is dropped and the relay goes on: while
\* the streams stay open the relay is still running after it, and the
\* destination has received exactly the valid ones among the units handled,
\* in order.
C9_InvalidDroppedRelayContinues ==
    \A c \in {"c1"}, d \in Dirs :
        LET handled == SubSeq(Units(c, d), 1, Handled(c, d))
        IN  /\ (pc[c] = "gather" /\ sendErr[c][d] = 0 /\ rpc[c][d] # "error"
                    /\ ws[c]["client"] = "open" /\ ws[c]["server"] = "open")
               => Running(c, d)
            /\ (Forwarding(c, d) /\ \E i \in 1..Len(handled) : ~IsValidJson(handled[i]))
               => SameDecoded(rcvd[c][Target(d)], SelectSeq(handled, IsValidJson))

\* an undecodable unit, then a valid one, which arrived
C9_Witness ==
    /\ Forwarding("c1", "s2c")
    /\ Len(Units("c1", "s2c")) = 2
    /\ ~IsValidJson(Units("c1", "s2c")[1])
    /\ IsValidJson(Units("c1", "s2c")[2])
    /\ Len(rcvd["c1"]["client"]) = 1

\* the decoded first message of a client
FirstValue(c) == json_loads(First(c)).val

\* a JSON object with a member of that name
HasField(v, key) == v.k = "obj" /\ \E i \in 1..Len(v.items) : v.items[i].s = key

\* values on which Python's `key in v` is defined and false
MembershipFalse(v, key) ==
    \/ v.k = "obj" /\ ~HasField(v, key)
    \/ v.k = "arr" /\ \A i \in 1..Len(v.items) : v.items[i] # Scalar("str", key)
    \/ v.k = "str" /\ ~IsSubstring(key, v.s)

\* handle_client is over, by return or by exception
Over(c) == pc[c] \in {"done", "raised"}

\* the first message arrived, is valid JSON and has no bearer_token field
MissingToken(c) ==
    /\ authEvt[c] = "msg"
    /\ IsValidJson(First(c))
    /\ ~HasField(FirstValue(c), "bearer_token")

Call1008 == [code |-> 1008, reason |-> "Bearer token missing"]
Call1011 == [code |-> 1011, reason |-> "Internal error"]

\* C3 as stated: whatever the shape of a valid JSON first message without a
\* bearer_token field, handle_client closes with 1008 "Bearer token missing"
\* and attempts no upstream connection.
C3_AnyShapeCloses1008 ==
    \A c \in {"c1"} :
        (MissingToken(c) /\ Over(c))
        => /\ closeCalls[c] # <<>>
           /\ closeCalls[c][1] = Call1008
           /\ ws[c]["server"] = "none"

\* C3 amended: for a valid JSON first message without a bearer_token field,
\* handle_client attempts no upstream connection and its first close call is
\* 1008 "Bearer token missing" when Python's `"bearer_token" in` test is
\* defined and false on the value (an object without the key, an array
\* without the element "bearer_token", a string not containing it), and is
\* 1011 "Internal error" for every other value.
C3_MissingTokenCloses ==
    \A c \in {"c1"} :
        (MissingToken(c) /\ Over(c))
        => /\ closeCalls[c] # <<>>
           /\ closeCalls[c][1] =
                (IF MembershipFalse(FirstValue(c), "bearer_token")
                 THEN Call1008 ELSE Call1011)
           /\ ws[c]["server"] = "none"

\* an object without the key was closed with 1008
C3_Witness ==
    /\ MissingToken("c1")
    /\ FirstValue("c1").k = "obj"
    /\ pc["c1"] = "done"
    /\ closeCalls["c1"] = <<Call1008>>
    /\ ws["c1"]["client"] = "closed_local"

\* C4: when the first message fails to parse as JSON, does not arrive in
\* time, or the wait for it fails otherwise, handle_client makes exactly one
\* close call, with code 1011 and reason "Internal error", and the client
\* stream is no longer open.
C4_AuthErrorCloses1011 ==
    \A c \in {"c1"} :
        (Over(c) /\ (authEvt[c] \in {"timeout", "closed"}
                        \/ (authEvt[c] = "msg" /\ ~IsValidJson(First(c)))))
        => /\ closeCalls[c] = <<Call1011>>
           /\ ws[c]["client"] # "open"

\* an undecodable first message was answered with 1011
C4_Witness ==
    /\ authEvt["c1"] = "msg"
    /\ ~IsValidJson(First("c1"))
    /\ pc["c1"] = "done"
    /\ closeCalls["c1"] = <<Call1011>>
    /\ ws["c1"]["client"] = "closed_local"

\* C5: an upstream connection exists or is being dialed only for a client
\* whose first message was received, parsed and found to have a bearer_token
\* field; none while the auth message is awaited or after an auth failure.
C5_NoDialBeforeAuth ==
    \A c \in {"c1"} :
        /\ ws[c]["server"] # "none"
           => (authEvt[c] = "msg" /\ IsValidJson(First(c))
                  /\ HasField(FirstValue(c), "bearer_token"))
        /\ (pc[c] \in {"idle", "recv", "close1008", "close1011", "raised"}
               \/ closeCalls[c] # <<>>)
           => ws[c]["server"] = "none"

\* the upstream is being dialed for a first message that carries a token
C5_Witness ==
    /\ pc["c1"] = "connect"
    /\ ws["c1"]["server"] = "connecting"
    /\ HasField(FirstValue("c1"), "bearer_token")

\* the token of the first message of a client, as text
TokenText(c) == py_str(py_getitem(FirstValue(c), "bearer_token").val)

\* C6: the connect call made for a client carries the Authorization header
\* "Bearer t", t being the bearer_token value of that client's first message.
C6_HeaderCarriesToken ==
    \A c \in Conns :
        ws[c]["server"] # "none"
        => /\ HasField(FirstValue(c), "bearer_token")
           /\ upHeader[c] = "Bearer " \o TokenText(c)

\* two sessions at once, each with its own token
C6_Witness ==
    /\ ws["c1"]["server"] = "open"
    /\ ws["c2"]["server"] = "open"
    /\ upHeader["c1"] = "Bearer abc"
    /\ upHeader["c2"] = "Bearer 123"

\* C7: once create_proxy has returned after a successful connect, the
\* upstream connection is closed.
C7_UpstreamClosedOnReturn ==
    \A c \in {"c1"} :
        (pc[c] = "done" /\ ws[c]["server"] \notin {"none", "failed"})
        => IsClosed(ws[c]["server"])

\* create_proxy returned and closed an upstream that was still open
C7_Witness ==
    /\ pc["c1"] = "done"
    /\ ws["c1"]["server"] = "closed_local"
    /\ \A d \in Dirs : rpc["c1"][d] = "done"

\* C8: when the connect fails, create_proxy returns without starting a relay
\* or forwarding anything, and no close call is made on the client stream,
\* which is left as it was: nothing more is read from it.
C8_ConnectFailureLeavesClient ==
    \A c \in {"c1"} :
        ws[c]["server"] = "failed"
        => /\ pc[c] = "done"
           /\ \A d \in Dirs : rpc[c][d] = "none"
           /\ \A e \in Ends : rcvd[c][e] = <<>>
           /\ closeCalls[c] = <<>>
           /\ ws[c]["client"] # "closed_local"
           /\ nread[c]["client"] = 1

\* the connect failed; the client is open and its payload is never read
C8_Witness ==
    /\ ws["c1"]["server"] = "failed"
    /\ ws["c1"]["client"] = "open"
    /\ Len(sent["c1"]["client"]) = 2

\* C10 as stated: handle_client never ends by raising, whatever fails, a
\* close call made while handling an earlier error included.
C10_NeverRaises == \A c \in {"c1"} : pc[c] # "raised"

\* C11: create_proxy joins both relay tasks: while a relay task is still
\* running, create_proxy waits in gather and the upstream connection has not
\* been closed by the proxy; a task that ended with an unexpected error does
\* not end the wait for the other one.
C11_GatherJoinsBoth ==
    \A c \in {"c1"} :
        /\ (\E d \in Dirs : Running(c, d))
           => (pc[c] = "gather" /\ ws[c]["server"] # "closed_local")
        /\ (pc[c] \in {"exit", "done"} /\ ws[c]["server"] \notin {"none", "failed"})
           => \A d \in Dirs : Finished(rpc[c][d])

\* one task ended with an error, the other is sending, create_proxy waits
C11_Witness ==
    /\ pc["c1"] = "gather"
    /\ rpc["c1"]["c2s"] = "error"
    /\ rpc["c1"]["s2c"] = "send"
    /\ ws["c1"]["server"] = "open"

\* C12 as stated: after a write that failed with an exception other than
\* connection-closed, the relay reads no further unit from its source and
\* forwards nothing more.
C12_WriteErrorStopsRelay ==
    [][\A c \in {"c1"}, d \in Dirs :
          sendErr[c][d] > 0
          => /\ nread'[c][Source(d)] = nread[c][Source(d)]
             /\ rcvd'[c][Target(d)] = rcvd[c][Target(d)]]_vars

\* C12 amended: a write that fails with an exception other than
\* connection-closed is caught and only that unit is lost: while the streams
\* stay open the relay is still running after it, and the destination has
\* received the valid units handled so far except the ones whose write
\* failed.
C12_WriteErrorDropsUnit ==
    \A c \in {"c1"}, d \in Dirs :
        LET handled == SubSeq(Units(c, d), 1, Handled(c, d))
        IN  sendErr[c][d] > 0
            => /\ (pc[c] = "gather" /\ rpc[c][d] # "error"
                      /\ ws[c]["client"] = "open" /\ ws[c]["server"] = "open")
                  => Running(c, d)
               /\ (Running(c, d) /\ ws[c][Target(d)] = "open")
                  => Len(rcvd[c][Target(d)])
                        = Len(SelectSeq(handled, IsValidJson)) - sendErr[c][d]

\* the write of the first unit failed, the second unit was read and arrived
C12_Witness ==
    /\ sendErr["c1"]["c2s"] = 1
    /\ Running("c1", "c2s")
    /\ Len(Units("c1", "c2s")) = 2
    /\ \A i \in 1..2 : IsValidJson(Units("c1", "c2s")[i])
    /\ json_loads(Units("c1", "c2s")[1]).val # json_loads(Units("c1", "c2s")[2]).val
    /\ Len(rcvd["c1"]["server"]) = 1
    /\ json_loads(rcvd["c1"]["server"][1]).val = json_loads(Units("c1", "c2s")[2]).val

\* C13: a write that fails because the destination is closed ends the relay
\* at once and normally: the task is over without an error, and it read no
\* further unit and wrote nothing after that write, even though its source
\* is open and has more to give.
C13_ClosedWriteEndsRelay ==
    [][\A c \in {"c1"}, d \in Dirs :
          /\ (rpc[c][d] = "send" /\ ws[c][Target(d)] # "open"
                 /\ rpc'[c][d] # rpc[c][d])
             => /\ rpc'[c][d] = "done"
                /\ nread'[c][Source(d)] = nread[c][Source(d)]
                /\ rcvd'[c][Target(d)] = rcvd[c][Target(d)]
          /\ rpc[c][d] = "done"
             => /\ rpc'[c][d] = "done"
                /\ nread'[c][Source(d)] = nread[c][Source(d)]
                /\ rcvd'[c][Target(d)] = rcvd[c][Target(d)]]_vars

\* the upstream -> client relay ended on a write to the closed client while
\* the upstream is open and has a unit the relay never read
C13_Witness ==
    /\ rpc["c1"]["s2c"] = "done"
    /\ ws["c1"]["server"] = "open"
    /\ IsClosed(ws["c1"]["client"])
    /\ Unread("c1", "server")
    /\ nread["c1"]["server"] = 1
    /\ rcvd["c1"]["client"] = <<>>

\* the other direction
Other(d) == IF d = "c2s" THEN "s2c" ELSE "c2s"

\* C14: no exception leaves create_proxy: from the connect call on,
\* whatever the connect and the relay tasks do, handle_client makes no close
\* call and does not end by an exception; and the step that ends a relay
\* task, normally or by an error, changes neither the other task nor
\* create_proxy.
C14_NoExceptionEscapesSession ==
    [][\A c \in {"c1"} :
          /\ ws[c]["server"] # "none"
             => /\ closeCalls'[c] = <<>>
                /\ pc'[c] \in {"connect", "gather", "exit", "done"}
          /\ \A d \in Dirs :
                (Running(c, d) /\ Finished(rpc'[c][d]))
                => /\ rpc'[c][Other(d)] = rpc[c][Other(d)]
                   /\ pc'[c] = pc[c]
                   /\ ws'[c] = ws[c]]_vars

\* a task ended with an error, the other one ended later on its closed
\* source after forwarding a unit, and handle_client returned without a
\* close call
C14_Witness ==
    /\ pc["c1"] = "done"
    /\ rpc["c1"]["s2c"] = "error"
    /\ rpc["c1"]["c2s"] = "done"
    /\ Len(rcvd["c1"]["server"]) = 1
    /\ closeCalls["c1"] = <<>>
    /\ ws["c1"]["server"] = "closed_local"

\* the tasks that read a stream: handle_client while it awaits the first
\* message (client stream) or the opening handshake (upstream), and a running
\* relay on its source
Readers(c, e) ==
    {t \in {"handle_client"} :
        \/ e = "client" /\ pc[c] = "recv"
        \/ e = "server" /\ pc[c] = "connect"}
    \cup {d \in Dirs : Running(c, d) /\ Source(d) = e}

\* the tasks that write a stream: handle_client while it makes a close call
\* (client stream), dials or leaves `async with` (upstream), and a running
\* relay on its destination
Writers(c, e) ==
    {t \in {"handle_client"} :
        \/ e = "client" /\ pc[c] \in {"close1008", "close1011"}
        \/ e = "server" /\ pc[c] \in {"connect", "exit"}}
    \cup {d \in Dirs : Running(c, d) /\ Target(d) = e}

\* C15: each stream of a session has at most one task reading it and at
\* most one task writing it.
C15_OneReaderOneWriter ==
    \A c \in {"c1"}, e \in Ends :
        /\ Cardinality(Readers(c, e)) <= 1
        /\ Cardinality(Writers(c, e)) <= 1

\* both relays at work: each stream has exactly one reader and one writer
C15_Witness ==
    /\ rpc["c1"]["c2s"] = "send"
    /\ rpc["c1"]["s2c"] = "send"
    /\ \A e \in Ends : Cardinality(Readers("c1", e)) = 1
    /\ \A e \in Ends : Cardinality(Writers("c1", e)) = 1

\* the state of a connection in the state machine of the specification;
\* ACCEPTED and AUTHENTICATED are passed through without suspension
\* (handle_client awaits recv at once, create_proxy dials at once), and a
\* failed dial leads to CLOSED in the same step
Phase(c) ==
    CASE pc[c] = "idle" -> "LISTENING"
      [] pc[c] = "recv" -> "AWAITING_AUTH"
      [] pc[c] \in {"close1008", "close1011"} -> "AUTH_FAILED"
      [] pc[c] = "connect" -> "UPSTREAM_CONNECTING"
      [] pc[c] \in {"gather", "exit"} -> "RELAYING"
      [] pc[c] \in {"done", "raised"} -> "CLOSED"

PhaseSteps ==
    { <<"LISTENING", "AWAITING_AUTH">>,
      <<"AWAITING_AUTH", "UPSTREAM_CONNECTING">>,
      <<"AWAITING_AUTH", "AUTH_FAILED">>,
      <<"UPSTREAM_CONNECTING", "RELAYING">>,
      <<"UPSTREAM_CONNECTING", "CLOSED">>,
      <<"RELAYING", "CLOSED">>,
      <<"AUTH_FAILED", "CLOSED">> }

\* C16: a connection follows only the transitions of the state machine; the
\* upstream is dialed once (a dial starts only from AWAITING_AUTH and a
\* failed dial is final), RELAYING is entered only by a dial that succeeded,
\* and from the dial on there is no AUTH_FAILED and no close call.
C16_ConnectionStateMachine ==
    [][\A c \in {"c1"} :
          /\ Phase(c)' # Phase(c) => <<Phase(c), Phase(c)'>> \in PhaseSteps
          /\ (ws'[c]["server"] = "connecting" /\ ws[c]["server"] # "connecting")
             => (Phase(c) = "AWAITING_AUTH" /\ ws[c]["server"] = "none")
          /\ ws[c]["server"] = "failed"
             => (ws'[c]["server"] = "failed" /\ Phase(c)' = "CLOSED")
          /\ (Phase(c)' = "RELAYING" /\ Phase(c) # "RELAYING")
             => (ws[c]["server"] = "connecting" /\ ws'[c]["server"] = "open")
          /\ ws[c]["server"] # "none"
             => (Phase(c)' # "AUTH_FAILED" /\ closeCalls'[c] = closeCalls[c])]_vars

\* a connection that went through RELAYING, forwarded a unit each way and is
\* CLOSED
C16_Witness ==
    /\ Phase("c1") = "CLOSED"
    /\ ws["c1"]["server"] = "closed_local"
    /\ Len(rcvd["c1"]["server"]) = 1
    /\ Len(rcvd["c1"]["client"]) = 1
    /\ closeCalls["c1"] = <<>>

\* C17 as stated: when the first message has no bearer_token field and
\* handle_client answers with the 1008 close, that close call is the only
\* one it makes, whatever the outcome of the call.
C17_Single1008Close ==
    \A c \in {"c1"} :
        (closeCalls[c] # <<>> /\ closeCalls[c][1] = Call1008)
        => closeCalls[c] = <<Call1008>>

\* everything the program holds for one connection
ConnState(c) ==
    <<pc[c], ws[c], sent[c], nread[c], rcvd[c], authEvt[c], bearer_token[c],
      upHeader[c], rpc[c], data[c], sendErr[c], closeCalls[c]>>

\* every text of `got` decodes to the value of one of the texts of `own`
DrawnFrom(got, own) ==
    \A i \in 1..Len(got) :
        \E j \in 1..Len(own) :
            json_loads(got[i]).val = json_loads(own[j]).val

\* C18: with several sessions at once, what the upstream of a session
\* receives was sent by the client of that session and what a client receives
\* was sent by its own upstream; a step changes the state of one connection
\* only; a relay ends only because its own source is closed, its own
\* destination is not open or the task itself failed; and the proxy closes a
\* stream only from the handle_client of that connection.
C18_SessionsIsolated ==
    /\ [](\A c \in Conns, d \in Dirs : DrawnFrom(rcvd[c][Target(d)], Units(c, d)))
    /\ [][\A c \in Conns :
          /\ ConnState(c)' # ConnState(c)
             => \A other \in Conns \ {c} : ConnState(other)' = ConnState(other)
          /\ \A d \in Dirs :
                (Running(c, d) /\ rpc'[c][d] = "done")
                => (IsClosed(ws[c][Source(d)]) \/ ws[c][Target(d)] # "open")
          /\ \A e \in Ends :
                (ws[c][e] = "open" /\ ws'[c][e] = "closed_local")
                => pc[c] \in {"close1008", "close1011", "exit"}]_vars

\* the client of c1 went away and its relay ended, while the session of c2
\* has both streams open, both relays running and the unit of its own client
\* at its upstream
C18_Witness ==
    /\ IsClosed(ws["c1"]["client"])
    /\ rpc["c1"]["c2s"] = "done"
    /\ ws["c2"]["client"] = "open"
    /\ ws["c2"]["server"] = "open"
    /\ \A d \in Dirs : Running("c2", d)
    /\ Len(rcvd["c2"]["server"]) = 1
    /\ json_loads(rcvd["c2"]["server"][1]).val = json_loads(sent["c2"]["client"][2]).val

\* handle_client of the connection is suspended: it awaits the first
\* message, the upstream connect, or the relay tasks
Blocked(c) == pc[c] \in {"recv", "connect", "gather"}

\* C19: a connection suspended in its auth wait, its dial or its relays
\* holds up no other connection: the other one can be accepted, have its
\* first message read, its dial completed and its units read and written as
\* soon as its own condition for that step holds.
C19_ConnectionsServedConcurrently ==
    \A c \in Conns : \A other \in Conns \ {c} :
        Blocked(other)
        => /\ pc[c] = "idle" => ENABLED Accept(c)
           /\ (pc[c] = "recv" /\ Unread(c, "client")) => ENABLED AuthRecv(c)
           /\ pc[c] = "connect" => ENABLED ConnectOk(c)
           /\ \A d \in Dirs :
                /\ (rpc[c][d] = "read" /\ Unread(c, Source(d)))
                   => ENABLED RelayRead(c, d)
                /\ (rpc[c][d] = "send" /\ ws[c][Target(d)] = "open")
                   => ENABLED RelaySend(c, d, "ok")

\* c1 still awaits its first message; c2 was accepted, authenticated,
\* connected and has forwarded a unit, and its relays run
C19_Witness ==
    /\ pc["c1"] = "recv"
    /\ sent["c1"]["client"] = <<>>
    /\ pc["c2"] = "gather"
    /\ \A d \in Dirs : Running("c2", d)
    /\ Len(rcvd["c2"]["server"]) = 1

\* C20: the first message of a client is consumed by handle_client and never
\* forwarded: what the upstream has received is drawn from the second and
\* later messages of the client, and none of it decodes to the value of the
\* first message.
C20_AuthMessageNotForwarded ==
    \A c \in {"c1"} :
        rcvd[c]["server"] # <<>>
        => /\ Len(rcvd[c]["server"]) <= Len(sent[c]["client"]) - 1
           /\ DrawnFrom(rcvd[c]["server"], Tail(sent[c]["client"]))
           /\ \A i \in 1..Len(rcvd[c]["server"]) :
                json_loads(rcvd[c]["server"][i]).val # FirstValue(c)

\* the client sent its auth message and one unit; the relay read past both
\* and the upstream has received the unit alone
C20_Witness ==
    /\ Len(sent["c1"]["client"]) = 2
    /\ nread["c1"]["client"] = 2
    /\ Len(rcvd["c1"]["server"]) = 1
    /\ json_loads(rcvd["c1"]["server"][1]).val = json_loads(sent["c1"]["client"][2]).val
    /\ HasField(FirstValue("c1"), "bearer_token")

====
